---------------------------- MODULE Spec2Model ----------------------------
(***************************************************************************)
(* A model of vinea (lib/index.js): file and module lookup with node.js    *)
(* require() semantics.  Paths and specifiers are strings, handled         *)
(* character by character as the JavaScript does; the file system is a map *)
(* from absolute paths to entry kinds; every asynchronous callback of the  *)
(* library (readdir, stat, the vasync completion callbacks) is one action. *)
(***************************************************************************)
EXTENDS Integers, Sequences, FiniteSets, TLC

(***************************************************************************)
(* JavaScript string primitives (indices are 0-based, as in the source).   *)
(* They are functions, so that an argument is evaluated once, when the     *)
(* function is applied.                                                    *)
(***************************************************************************)
MinOf[S \in SUBSET Int] == CHOOSE x \in S : \A y \in S : x <= y

MaxOf[S \in SUBSET Int] == CHOOSE x \in S : \A y \in S : x >= y

StartsWith[s \in STRING, pre \in STRING] ==
    Len(s) >= Len(pre) /\ SubSeq(s, 1, Len(pre)) = pre

EndsWith[s \in STRING, suf \in STRING] ==
    Len(s) >= Len(suf) /\ SubSeq(s, Len(s) - Len(suf) + 1, Len(s)) = suf

Occurrences[s \in STRING, sub \in STRING] ==
    {i \in 0..(Len(s) - Len(sub)) : SubSeq(s, i + 1, i + Len(sub)) = sub}

IndexOf[s \in STRING, sub \in STRING] ==
    IF Occurrences[s, sub] = {} THEN -1 ELSE MinOf[Occurrences[s, sub]]

LastIndexOf[s \in STRING, sub \in STRING] ==
    IF Occurrences[s, sub] = {} THEN -1 ELSE MaxOf[Occurrences[s, sub]]

\* the index arguments of String.prototype.slice: negative ones count from
\* the end
ClampIndex[s \in STRING, i \in Int] ==
    IF i < 0 THEN (IF Len(s) + i < 0 THEN 0 ELSE Len(s) + i)
    ELSE (IF i > Len(s) THEN Len(s) ELSE i)

Slice[s \in STRING, from \in Int, to \in Int] ==
    SubSeq(s, ClampIndex[s, from] + 1, ClampIndex[s, to])

SliceFrom[s \in STRING, from \in Int] == Slice[s, from, Len(s)]

\* String.prototype.replace(pattern, replacement) with a string pattern:
\* the first occurrence only
Replace[s \in STRING, pat \in STRING, rep \in STRING] ==
    IF IndexOf[s, pat] = -1 THEN s
    ELSE SubSeq(s, 1, IndexOf[s, pat]) \o rep
            \o SubSeq(s, IndexOf[s, pat] + Len(pat) + 1, Len(s))

\* s.split('/') as a sequence of segments
Split[s \in STRING] ==
    IF IndexOf[s, "/"] = -1 THEN <<s>>
    ELSE <<SubSeq(s, 1, IndexOf[s, "/"])>>
            \o Split[SubSeq(s, IndexOf[s, "/"] + 2, Len(s))]

\* segs.join('/')
JoinSegs[segs \in Seq(STRING)] ==
    IF Len(segs) = 0 THEN ""
    ELSE IF Len(segs) = 1 THEN segs[1]
    ELSE segs[1] \o "/" \o JoinSegs[Tail(segs)]

(***************************************************************************)
(* node's path module (posix).                                             *)
(***************************************************************************)
\* normalizeString: drop '' and '.', let '..' cancel the segment before it
NormalizeSegs[segs \in Seq(STRING), acc \in Seq(STRING), allowAboveRoot \in BOOLEAN] ==
    IF Len(segs) = 0 THEN acc
    ELSE IF Head(segs) = "" \/ Head(segs) = "." THEN
        NormalizeSegs[Tail(segs), acc, allowAboveRoot]
    ELSE IF Head(segs) = ".." THEN
        IF Len(acc) > 0 /\ acc[Len(acc)] # ".." THEN
            NormalizeSegs[Tail(segs), SubSeq(acc, 1, Len(acc) - 1),
                          allowAboveRoot]
        ELSE IF allowAboveRoot THEN
            NormalizeSegs[Tail(segs), Append(acc, ".."), allowAboveRoot]
        ELSE NormalizeSegs[Tail(segs), acc, allowAboveRoot]
    ELSE NormalizeSegs[Tail(segs), Append(acc, Head(segs)), allowAboveRoot]

PathNormalize[p \in STRING] ==
    IF Len(p) = 0 THEN "."
    ELSE LET isAbsolute == StartsWith[p, "/"]
             trailingSeparator == EndsWith[p, "/"]
             body == JoinSegs[NormalizeSegs[Split[p], <<>>, ~isAbsolute]]
         IN IF Len(body) = 0
            THEN (IF isAbsolute THEN "/"
                  ELSE IF trailingSeparator THEN "./" ELSE ".")
            ELSE (IF isAbsolute THEN "/" ELSE "") \o body
                    \o (IF trailingSeparator THEN "/" ELSE "")

\* path.join(a, b): the non-empty arguments joined by '/', then normalized
PathJoin[a \in STRING, b \in STRING] ==
    IF Len(a) = 0 /\ Len(b) = 0 THEN "."
    ELSE IF Len(a) = 0 THEN PathNormalize[b]
    ELSE IF Len(b) = 0 THEN PathNormalize[a]
    ELSE PathNormalize[a \o "/" \o b]

StripTrailingSlashes[p \in STRING] ==
    IF Len(p) > 0 /\ EndsWith[p, "/"]
    THEN StripTrailingSlashes[SubSeq(p, 1, Len(p) - 1)]
    ELSE p

\* the last path segment, trailing separators ignored
PathBasename[p \in STRING] ==
    SliceFrom[StripTrailingSlashes[p],
              LastIndexOf[StripTrailingSlashes[p], "/"] + 1]

\* path.extname(p): from the last '.' of the basename; '' if there is none,
\* if it is the basename's first character, or if the basename is '..'
PathExtname[p \in STRING] ==
    LET base == PathBasename[p]
        dot  == LastIndexOf[base, "."]
    IN IF dot = -1 \/ dot = 0 \/ base = ".." THEN "" ELSE SliceFrom[base, dot]

(***************************************************************************)
(* Constants and pure helpers of lib/index.js.                             *)
(***************************************************************************)
NODE_MODULES == "node_modules"

PACKAGE_JSON == "package.json"

\* isNodeModuleRequire with the test of the last character lost
isNodeModuleRequireNoTrailing(itemPath) ==
    /\ itemPath # ""
    /\ ~StartsWith[itemPath, "/"]
    /\ ~StartsWith[itemPath, "./"]
    /\ ~StartsWith[itemPath, "../"]
    /\ PathExtname[itemPath] # ".js"

isNodeModuleRequire(itemPath) ==
    /\ itemPath # ""
    /\ ~StartsWith[itemPath, "/"]
    /\ ~StartsWith[itemPath, "./"]
    /\ ~StartsWith[itemPath, "../"]
    /\ ~EndsWith[itemPath, "/"]
    /\ PathExtname[itemPath] # ".js"

\* isNodeModuleMainRequire with the test of the extension lost
isNodeModuleMainRequireAnyExt(itemPath) ==
    /\ itemPath # ""
    /\ IndexOf[itemPath, "/"] = -1

isNodeModuleMainRequire(itemPath) ==
    /\ itemPath # ""
    /\ IndexOf[itemPath, "/"] = -1
    /\ PathExtname[itemPath] # ".js"

\* getModuleNameFromPath taking the first occurrence of 'node_modules/'
getModuleNameFromPathFirst(itemPath) ==
    LET nmPath == NODE_MODULES \o "/"
        idxSlash == IndexOf[itemPath, nmPath]
        modulePathFull == SliceFrom[itemPath, idxSlash + Len(nmPath)]
    IN IF idxSlash = -1 THEN ""
       ELSE IF IndexOf[modulePathFull, "/"] = -1 THEN modulePathFull
       ELSE Slice[modulePathFull, 0, IndexOf[modulePathFull, "/"]]

getModuleNameFromPath(itemPath) ==
    LET nmPath == NODE_MODULES \o "/"
        idxSlash == LastIndexOf[itemPath, nmPath]
        modulePathFull == SliceFrom[itemPath, idxSlash + Len(nmPath)]
    IN IF idxSlash = -1 THEN ""
       ELSE IF IndexOf[modulePathFull, "/"] = -1 THEN modulePathFull
       ELSE Slice[modulePathFull, 0, IndexOf[modulePathFull, "/"]]

(***************************************************************************)
(* JavaScript values passed to callbacks.                                  *)
(***************************************************************************)
Null == [code |-> "null", about |-> ""]

Err(code, about) == [code |-> code, about |-> about]

Undefined == [type |-> "undefined"]

Str(v) == [type |-> "string", val |-> v]

\* the {foundPath, statInfo} object of findWithRequireSemantics
Found(p, statInfo) ==
    [type |-> "object", foundPath |-> p, statInfo |-> statInfo]

(***************************************************************************)
(* The file system: kind maps every existing absolute path to "file",      *)
(* "dir" or "broken" (an entry whose stat fails: a dangling link, a        *)
(* permission error); json gives the document stored in a manifest file.   *)
(***************************************************************************)
Empty == [p \in {} |-> ""]

IsStatErr(k) == k \in {"ENOENT", "ENOTDIR", "EIO"}

\* fs.stat(p): the kind of the entry, or the errno of the failure
Stat(kind, p) ==
    LET Lookup[key \in STRING] ==
            IF key \notin DOMAIN kind THEN "ENOENT"
            ELSE IF kind[key] = "broken" THEN "EIO"
            ELSE IF EndsWith[p, "/"] /\ kind[key] # "dir" THEN "ENOTDIR"
            ELSE kind[key]
    IN Lookup[IF p = "/" THEN p ELSE StripTrailingSlashes[p]]

Dirname[p \in STRING] ==
    IF LastIndexOf[p, "/"] <= 0 THEN "/" ELSE Slice[p, 0, LastIndexOf[p, "/"]]

SetToSeq[S \in SUBSET STRING] ==
    IF S = {} THEN <<>>
    ELSE <<CHOOSE x \in S : TRUE>> \o SetToSeq[S \ {CHOOSE x \in S : TRUE}]

\* fs.readdir(dir): the names of the entries of dir, in the file system's
\* (fixed) listing order
ReadDirNames(kind, dir) ==
    LET key == IF dir = "/" THEN dir ELSE StripTrailingSlashes[dir] IN
    SetToSeq[{PathBasename[p] :
                p \in {q \in DOMAIN kind : q # "/" /\ Dirname[q] = key}}]

ReadDirErr(kind, dir) ==
    IF Stat(kind, dir) = "dir" THEN "null"
    ELSE IF Stat(kind, dir) = "file" THEN "ENOTDIR"
    ELSE Stat(kind, dir)

(***************************************************************************)
(* Manifest documents (package.json).  A field is a JavaScript value of    *)
(* which only typeof and, for strings, the text matter.                    *)
(***************************************************************************)
FieldStr(v) == [type |-> "string", val |-> v]

FieldUndefined == [type |-> "undefined", val |-> ""]

FieldObject == [type |-> "object", val |-> ""]

Doc(browser, main) == [parses |-> TRUE, browser |-> browser, main |-> main]

Unparseable ==
    [parses |-> FALSE, browser |-> FieldUndefined, main |-> FieldUndefined]

\* require(p) of a .json file: whether it throws for a module not yet cached
RequireThrows(kind, json, p) ==
    \/ Stat(kind, p) # "file"
    \/ p \notin DOMAIN json
    \/ ~json[p].parses

(***************************************************************************)
(* findItem (lib/index.js:185-272).                                        *)
(***************************************************************************)
PendingOp == [status |-> "pending", result |-> Undefined]

FindItemFrame(itemName, itemType, currentPath, recursive) ==
    [fn |-> "findItem", itemName |-> itemName, itemType |-> itemType,
     currentPath |-> currentPath, recursive |-> recursive,
     phase |-> "readdir", dirItems |-> <<>>, ops |-> <<>>]

\* IsBingo with the kind test lost: any entry of that name matches
IsBingoAnyKind(itemType, statKind, dirItem, itemName) ==
    itemType \in {"directory", "file"} /\ dirItem = itemName

\* the bingo case of statItem: the entry has the requested kind and name
IsBingo(itemType, statKind, dirItem, itemName) ==
    \/ itemType = "directory" /\ statKind = "dir" /\ dirItem = itemName
    \/ itemType = "file" /\ statKind = "file" /\ dirItem = itemName

\* StatItemOp with a stat error taken for an entry that does not match
StatItemOpIgnoringErrors(f, dirItem, statKind) ==
    IF IsBingo(f.itemType, statKind, dirItem, f.itemName)
    THEN [status |-> "ok", result |-> Str(PathJoin[f.currentPath, dirItem])]
    ELSE [status |-> "ok", result |-> Undefined]

\* the operation record vasync keeps for one statItem call
StatItemOp(f, dirItem, statKind) ==
    IF IsStatErr(statKind) THEN [status |-> "fail", result |-> Undefined]
    ELSE IF IsBingo(f.itemType, statKind, dirItem, f.itemName)
    THEN [status |-> "ok", result |-> Str(PathJoin[f.currentPath, dirItem])]
    ELSE [status |-> "ok", result |-> Undefined]

\* _(results.operations).pluck('result').compact().value().shift()
FoundPath(ops) ==
    LET hits == {i \in 1..Len(ops) : ops[i].result.type # "undefined"} IN
    IF hits = {} THEN Undefined ELSE ops[MinOf[hits]].result

\* NotFoundStep with the recursive flag ignored
NotFoundStepIgnoringFlag(recursive, currentPath) ==
    IF currentPath = "/" THEN "rootError" ELSE "goUp"

\* NotFoundStep with the test for the root directory lost
NotFoundStepPastRoot(recursive, currentPath) ==
    IF recursive THEN "goUp" ELSE "error"

\* what vasyncDone does when nothing was found in currentPath
NotFoundStep(recursive, currentPath) ==
    IF recursive
    THEN (IF currentPath = "/" THEN "rootError" ELSE "goUp")
    ELSE "error"

AnyFailed(ops) == \E i \in 1..Len(ops) : ops[i].status = "fail"

AllDone(ops) == \A i \in 1..Len(ops) : ops[i].status # "pending"

(***************************************************************************)
(* findNodeModulePath (lib/index.js:298-342).                              *)
(***************************************************************************)
FindNodeModulePathFrame(currentPath, moduleName) ==
    [fn |-> "findNodeModulePath", currentPath |-> currentPath,
     moduleName |-> moduleName, phase |-> "findNmPath", modulePath |-> ""]

\* the call: the waterfall starts findNmPath, which starts findItem
EnterFindNodeModulePath(currentPath, moduleName) ==
    << FindNodeModulePathFrame(currentPath, moduleName),
       FindItemFrame(NODE_MODULES, "directory", currentPath, TRUE) >>

(***************************************************************************)
(* findWithRequireSemantics (lib/index.js:421-525).                        *)
(***************************************************************************)
\* TryPaths with the index.js candidate lost
TryPathsNoIndex(currentPath, item) ==
    LET currentExt == PathExtname[item]
        joinedPath == PathJoin[currentPath, item]
    IN IF currentExt # ".js"
       THEN << PathJoin[currentPath, item],
               joinedPath \o ".js",
               joinedPath \o ".js",
               Slice[joinedPath, 0, LastIndexOf[joinedPath, "."]] \o ".js" >>
       ELSE << PathJoin[currentPath, item] >>

\* TryPaths with the test of the extension lost
TryPathsWhateverExt(currentPath, item) ==
    LET joinedPath == PathJoin[currentPath, item] IN
    << PathJoin[currentPath, item],
       PathJoin[joinedPath, "index.js"],
       joinedPath \o ".js",
       joinedPath \o ".js",
       Slice[joinedPath, 0, LastIndexOf[joinedPath, "."]] \o ".js" >>

\* the candidate list of the file branch
TryPaths(currentPath, item) ==
    LET currentExt == PathExtname[item]
        joinedPath == PathJoin[currentPath, item]
    IN IF currentExt # ".js"
       THEN << PathJoin[currentPath, item],
               PathJoin[joinedPath, "index.js"],
               joinedPath \o ".js",
               joinedPath \o ".js",
               Slice[joinedPath, 0, LastIndexOf[joinedPath, "."]] \o ".js" >>
       ELSE << PathJoin[currentPath, item] >>

\* TryOpenOp with the isFile test lost: any path whose stat succeeds is taken
TryOpenOpAnyKind(tryPath, statKind) ==
    IF ~IsStatErr(statKind)
    THEN [status |-> "ok", result |-> Found(tryPath, statKind)]
    ELSE [status |-> "fail", result |-> Undefined]

\* the operation record vasync keeps for one tryOpen call
TryOpenOp(tryPath, statKind) ==
    IF statKind = "file"
    THEN [status |-> "ok", result |-> Found(tryPath, statKind)]
    ELSE [status |-> "fail", result |-> Undefined]

\* SuccessOp taking the last operation that did not fail
SuccessOpLast(ops) ==
    LET oks == {i \in 1..Len(ops) : ops[i].status # "fail"} IN
    IF oks = {} THEN 0 ELSE MaxOf[oks]

\* _(results.operations).reject(status === 'fail').first(): its index, 0 if
\* there is none
SuccessOp(ops) ==
    LET oks == {i \in 1..Len(ops) : ops[i].status # "fail"} IN
    IF oks = {} THEN 0 ELSE MinOf[oks]

FileBranchFrame(currentPath, item) ==
    [fn |-> "findWithRequireSemantics", branch |-> "file",
     currentPath |-> currentPath, item |-> item,
     tryPaths |-> TryPaths(currentPath, item),
     ops |-> [i \in 1..Len(TryPaths(currentPath, item)) |-> PendingOp]]

\* EnterFindWithRequireSemantics with the module name left in secondHalf
EnterFindWithRequireSemanticsWholeItem(currentPath, item) ==
    IF isNodeModuleMainRequire(item) THEN
        << [fn |-> "findWithRequireSemantics", branch |-> "main",
            currentPath |-> currentPath, item |-> item] >>
           \o EnterFindNodeModulePath(currentPath, item)
    ELSE IF isNodeModuleRequire(item) THEN
        LET moduleName == Slice[item, 0, IndexOf[item, "/"]] IN
        << [fn |-> "findWithRequireSemantics", branch |-> "sub",
            currentPath |-> currentPath, item |-> item,
            secondHalf |-> item] >>
           \o EnterFindNodeModulePath(currentPath, moduleName)
    ELSE << FileBranchFrame(currentPath, item) >>

\* the call: dispatch on the kind of require string
EnterFindWithRequireSemantics(currentPath, item) ==
    IF isNodeModuleMainRequire(item) THEN
        << [fn |-> "findWithRequireSemantics", branch |-> "main",
            currentPath |-> currentPath, item |-> item] >>
           \o EnterFindNodeModulePath(currentPath, item)
    ELSE IF isNodeModuleRequire(item) THEN
        LET moduleName == Slice[item, 0, IndexOf[item, "/"]] IN
        << [fn |-> "findWithRequireSemantics", branch |-> "sub",
            currentPath |-> currentPath, item |-> item,
            secondHalf |-> Replace[item, moduleName, ""]] >>
           \o EnterFindNodeModulePath(currentPath, moduleName)
    ELSE << FileBranchFrame(currentPath, item) >>

(***************************************************************************)
(* findNodeModuleMainEntry (lib/index.js:580-613).                         *)
(***************************************************************************)
MainEntryFrame(modulePath) ==
    [fn |-> "findNodeModuleMainEntry", modulePath |-> modulePath]

\* EntryPointPath with main consulted before browser
EntryPointPathMainFirst(pkgJson) ==
    IF pkgJson.main.type = "string" THEN pkgJson.main.val
    ELSE IF pkgJson.browser.type = "string" THEN pkgJson.browser.val
    ELSE "index.js"

\* the entry point chosen from the manifest
EntryPointPath(pkgJson) ==
    IF pkgJson.browser.type = "string" THEN pkgJson.browser.val
    ELSE IF pkgJson.main.type = "string" THEN pkgJson.main.val
    ELSE "index.js"

(***************************************************************************)
(* openWithRequireSemantics (lib/index.js:544-568).                        *)
(***************************************************************************)
\* what fs.readFile hands over for the file at p, as a string
FileContents(p) == "contents of " \o p

OpenFrame(currentPath, item) ==
    [fn |-> "openWithRequireSemantics", currentPath |-> currentPath,
     item |-> item, phase |-> "find", foundData |-> Undefined]

\* the call: the waterfall starts find, which starts
\* findWithRequireSemantics
EnterOpenWithRequireSemantics(currentPath, item) ==
    << OpenFrame(currentPath, item) >>
        \o EnterFindWithRequireSemantics(currentPath, item)

\* ReadComplete with a read error swallowed: the data found is handed over
\* without contents
ReadCompleteErrorSwallowed(foundData, readErr) ==
    IF readErr # "null"
    THEN [err |-> Null, result |-> foundData]
    ELSE [err |-> Null,
          result |-> [type |-> "object", foundPath |-> foundData.foundPath,
                      statInfo |-> foundData.statInfo,
                      contents |-> FileContents(foundData.foundPath)]]

\* readComplete: what the read step passes to the waterfall
ReadComplete(foundData, readErr) ==
    IF readErr # "null"
    THEN [err |-> Err(readErr, foundData.foundPath), result |-> Undefined]
    ELSE [err |-> Null,
          result |-> [type |-> "object", foundPath |-> foundData.foundPath,
                      statInfo |-> foundData.statInfo,
                      contents |-> FileContents(foundData.foundPath)]]


(***************************************************************************)
(* The file systems and the arguments the model explores.                  *)
(***************************************************************************)
\* how often one directory is counted as read (the count saturates here)
MaxCount == 2

Disk(kind, json) == [kind |-> kind, json |-> json]

\* a base directory /p in which ./a is probed
ProbeDisks ==
    { Disk([p \in {"/", "/p"} |-> "dir"] @@ a @@ ajs @@ dotjs, Empty) :
        a \in { Empty,
                "/p/a" :> "file",
                "/p/a" :> "dir",
                ("/p/a" :> "dir") @@ ("/p/a/index.js" :> "file"),
                ("/p/a" :> "dir") @@ ("/p/a/index.js" :> "dir") },
        ajs \in { Empty, "/p/a.js" :> "file", "/p/a.js" :> "dir",
                  "/p/a.js" :> "broken" },
        dotjs \in { Empty, "/p/.js" :> "file" } }

ModuleDir == "/p/node_modules/libX"

ManifestDocs ==
    { Doc(b, m) :
        b \in { FieldUndefined, FieldObject, FieldStr(""), FieldStr("b.js") },
        m \in { FieldUndefined, FieldStr(""), FieldStr("dist/entry.js"),
                FieldStr("libX"), FieldStr("index") } }
      \cup { Unparseable }

ModuleTree ==
    [p \in {"/", "/p", "/p/s", "/p/node_modules", ModuleDir,
            ModuleDir \o "/dist"} |-> "dir"]
      @@ [p \in {ModuleDir \o "/dist/entry.js", ModuleDir \o "/b.js",
                 ModuleDir \o "/index.js"} |-> "file"]

\* a project /p with the installed module libX and its manifest
ModuleDisks ==
    { Disk(ModuleTree @@ ((ModuleDir \o "/package.json") :> "file"),
           (ModuleDir \o "/package.json") :> d) : d \in ManifestDocs }
      \cup { Disk(ModuleTree, Empty) }

\* a directory chain / > /p > /p/s with an entry x at some of the levels
TreeDisks ==
    { Disk([p \in {"/", "/p", "/p/s"} |-> "dir"] @@ ("/p/y" :> "file")
             @@ x0 @@ x1 @@ x2 @@ z, Empty) :
        x0 \in { Empty, "/x" :> "file", "/x" :> "dir" },
        x1 \in { Empty, "/p/x" :> "file", "/p/x" :> "dir" },
        x2 \in { Empty, "/p/s/x" :> "file", "/p/s/x" :> "dir" },
        z \in { Empty, "/p/z" :> "broken" } }

\* the chain / > /p > /p/s with a dependency directory at some of the
\* levels, holding libX or not
NestedDisks ==
    { Disk([p \in {"/", "/p", "/p/s"} |-> "dir"] @@ n0 @@ n1 @@ n2 @@ z,
           Empty) :
        n0 \in { Empty, "/node_modules" :> "dir",
                 ("/node_modules" :> "dir") @@ ("/node_modules/libX" :> "dir") },
        n1 \in { Empty, "/p/node_modules" :> "dir",
                 ("/p/node_modules" :> "dir") @@ (ModuleDir :> "dir"),
                 ("/p/node_modules" :> "dir") @@ (ModuleDir :> "file") },
        n2 \in { Empty, "/p/s/node_modules" :> "dir",
                 "/p/s/node_modules" :> "file",
                 ("/p/s/node_modules" :> "dir")
                    @@ ("/p/s/node_modules/libX" :> "dir") },
        z \in { Empty, "/p/z" :> "broken" } }

\* the chain with /p/s a directory that cannot be read nor stat'ed
FaultDisks ==
    { Disk(("/p/s" :> "broken") @@ [p \in {"/", "/p"} |-> "dir"] @@ x1,
           Empty) :
        x1 \in { Empty, "/p/x" :> "file" } }

\* what a manifest is rewritten to between two calls
EditedDocs == { Doc(FieldStr("b.js"), FieldUndefined) }

Disks ==
    ProbeDisks \cup ModuleDisks \cup TreeDisks \cup NestedDisks \cup FaultDisks

ItemNames == {"x"}

ItemTypes == {"file", "directory"}

StartDirs == {"/p/s", "/p", "/"}

BaseDirs == {"/p", "/p/s"}

ModuleNames == {"libX"}

Specifiers == {"./a", "./a.js", "libX", "libX/dist/entry"}

\* the arguments openWithRequireSemantics is called with
OpenBaseDirs == {"/p"}

OpenSpecifiers == {"./a", "./a.js"}

\* how fs.readFile can end: with the contents, or with a permission error
ReadErrs == {"null", "EACCES"}

(***************************************************************************)
(* The state.                                                              *)
(***************************************************************************)
VARIABLES
    fs,            \* the file system: path -> kind
    manifests,     \* the documents of the manifest files: path -> document
    requireCache,  \* node's require.cache: path -> loaded document
    call,          \* the exported function called last, with its arguments
    stack,         \* the pending continuations of that call, innermost last
    status,        \* "idle", "running", "returned" or "threw"
    cb,            \* the caller's callback: times called, last err and result
    readCount,     \* readdir calls of this call, per directory
    statLog,       \* stat calls of this call: path and outcome
    fileReads,     \* readFile calls of this call: the paths
    prev,          \* the outcome of the call before this one, when both are
                   \* calls of findWithRequireSemantics with the same
                   \* arguments and nothing was written to the file system
                   \* in between
    entryPoint,    \* entryPointPath of the last findNodeModuleMainEntry of
                   \* this call, with the path of the manifest and the
                   \* document require() returned for it
    other          \* with two callers in the process: call, stack, status,
                   \* cb, ... of the caller whose callbacks are not the
                   \* ones running now

vars == << fs, manifests, requireCache, call, stack, status, cb, readCount,
           statLog, fileReads, prev, entryPoint, other >>

NoCallback == [count |-> 0, err |-> Null, result |-> Undefined]

NoPrev == [status |-> "none"]

\* the process has one caller only
Absent == [status |-> "absent"]

\* the calls two callers in one process make
ConcurrentCalls ==
    { [op |-> "findItem", itemName |-> "x", itemType |-> "file",
       currentPath |-> "/p/s", recursive |-> TRUE],
      [op |-> "findWithRequireSemantics", currentPath |-> "/p",
       item |-> "./a"],
      [op |-> "findWithRequireSemantics", currentPath |-> "/p",
       item |-> "libX"] }

\* independent callers with distinct inputs: a call is not started while
\* the other caller's call with the same arguments is in flight
Admitted(c) ==
    \/ other.status = "absent"
    \/ c \in ConcurrentCalls /\ (other.status = "running" => c # other.call)

\* an exception nobody catches ends the process, unless the host handles
\* uncaught exceptions: the other caller's call in flight is abandoned
Abandoned(o) ==
    IF o.status = "running" THEN [o EXCEPT !.status = "abandoned"] ELSE o

Init ==
    /\ \E d \in Disks : fs = d.kind /\ manifests = d.json
    /\ requireCache = Empty
    /\ call = [op |-> "none"]
    /\ stack = << >>
    /\ status = "idle"
    /\ cb = NoCallback
    /\ readCount = Empty
    /\ statLog = {}
    /\ entryPoint = Undefined
    /\ prev = NoPrev
    /\ fileReads = {}
    /\ other = Absent

Top == stack[Len(stack)]

Rest == SubSeq(stack, 1, Len(stack) - 1)

CountRead(rc, dir) ==
    IF dir \in DOMAIN rc
    THEN [rc EXCEPT ![dir] = IF @ < MaxCount THEN @ + 1 ELSE @]
    ELSE rc @@ (dir :> 1)

(***************************************************************************)
(* Completion of a function: its callback runs the continuation of the     *)
(* caller, which may complete in turn; with no caller left the callback is *)
(* the one the user passed.                                                *)
(***************************************************************************)
Running(stk) ==
    [stack |-> stk, called |-> FALSE, err |-> Null, result |-> Undefined]

RECURSIVE Return(_, _, _)
\* ModulePathFailed with the retry in the parent directory lost
ModulePathFailedNoRetry(rest, f, err) == Return(rest, err, Undefined)

\* the final callback of findNodeModulePath's waterfall, with an error
ModulePathFailed(rest, f, err) ==
    IF f.currentPath = "/" THEN Return(rest, err, Undefined)
    ELSE Running(rest \o EnterFindNodeModulePath(
                            PathJoin[f.currentPath, ".."], f.moduleName))

Return(stk, err, result) ==
    IF Len(stk) = 0
    THEN [stack |-> << >>, called |-> TRUE, err |-> err, result |-> result]
    ELSE LET f == stk[Len(stk)]
             rest == SubSeq(stk, 1, Len(stk) - 1)
         IN
         IF f.fn = "openWithRequireSemantics" THEN
             \* findWithRequireSemantics called back into the waterfall of
             \* openWithRequireSemantics: next is read
             IF err.code # "null" THEN Return(rest, err, Undefined)
             ELSE Running(Append(rest,
                    [f EXCEPT !.phase = "read", !.foundData = result]))
         ELSE IF f.fn = "findNodeModulePath" THEN
             \* findItem called back into findNmPath
             IF err.code # "null"
             THEN ModulePathFailed(rest, f,
                                   Err("ModuleNotFound", f.moduleName))
             ELSE Running(Append(rest,
                    [f EXCEPT !.phase = "statModuleDir",
                              !.modulePath =
                                  PathJoin[result.val, f.moduleName]]))
         ELSE IF f.branch = "main" THEN
             \* findNodeModulePath called back into the waterfall of the
             \* main branch: next is findNodeModuleMainEntry
             IF err.code # "null" THEN Return(rest, err, Undefined)
             ELSE Running(Append(rest, MainEntryFrame(result.val)))
         ELSE
             \* the same in the sub-path branch: next is find
             IF err.code # "null" THEN Return(rest, err, Undefined)
             ELSE Running(rest \o EnterFindWithRequireSemantics(
                                    PathJoin[result.val, f.secondHalf], ""))

Continue(r) ==
    /\ stack' = r.stack
    /\ IF r.called
       THEN /\ status' = "returned"
            /\ cb' = [count |-> cb.count + 1, err |-> r.err,
                      result |-> r.result]
       ELSE UNCHANGED << status, cb >>

(***************************************************************************)
(* Calls of the exported functions.                                        *)
(***************************************************************************)
\* a call starts with nothing read and the callback not yet called
NewCall ==
    /\ status' = "running"
    /\ cb' = NoCallback
    /\ readCount' = Empty
    /\ statLog' = {}
    /\ entryPoint' = Undefined
    /\ prev' = IF call' = call /\ status \in {"returned", "threw"}
                    /\ call.op = "findWithRequireSemantics"
               THEN [status |-> status, err |-> cb.err, result |-> cb.result]
               ELSE NoPrev
    /\ fileReads' = {}
    /\ Admitted(call')
    /\ UNCHANGED << fs, manifests, requireCache, other >>

CallFindItem ==
    /\ status # "running"
    /\ \E itemName \in ItemNames, itemType \in ItemTypes,
          currentPath \in StartDirs, recursive \in BOOLEAN :
        /\ call' = [op |-> "findItem", itemName |-> itemName,
                    itemType |-> itemType, currentPath |-> currentPath,
                    recursive |-> recursive]
        /\ stack' = << FindItemFrame(itemName, itemType, currentPath,
                                     recursive) >>
    /\ NewCall

CallFindNodeModulePath ==
    /\ status # "running"
    /\ \E currentPath \in BaseDirs, moduleName \in ModuleNames :
        /\ call' = [op |-> "findNodeModulePath",
                    currentPath |-> currentPath, moduleName |-> moduleName]
        /\ stack' = EnterFindNodeModulePath(currentPath, moduleName)
    /\ NewCall

CallFindNodeModuleMainEntry ==
    /\ status # "running"
    /\ \E modulePath \in {ModuleDir} :
        /\ call' = [op |-> "findNodeModuleMainEntry",
                    modulePath |-> modulePath]
        /\ stack' = << MainEntryFrame(modulePath) >>
    /\ NewCall

CallFindWithRequireSemantics ==
    /\ status # "running"
    /\ \E currentPath \in BaseDirs, item \in Specifiers :
        /\ call' = [op |-> "findWithRequireSemantics",
                    currentPath |-> currentPath, item |-> item]
        /\ stack' = EnterFindWithRequireSemantics(currentPath, item)
    /\ NewCall

CallOpenWithRequireSemantics ==
    /\ status # "running"
    /\ \E currentPath \in OpenBaseDirs, item \in OpenSpecifiers :
        /\ call' = [op |-> "openWithRequireSemantics",
                    currentPath |-> currentPath, item |-> item]
        /\ stack' = EnterOpenWithRequireSemantics(currentPath, item)
    /\ NewCall

\* between two calls, the outcome of the first one taken, somebody rewrites
\* a manifest file
EditManifest ==
    /\ status # "running"
    /\ \E p \in DOMAIN manifests, d \in EditedDocs :
        /\ d # manifests[p]
        /\ manifests' = [manifests EXCEPT ![p] = d]
    /\ status' = "idle"
    /\ cb' = NoCallback
    /\ UNCHANGED << fileReads, prev, other, fs, requireCache, call, stack, readCount, statLog,
                    entryPoint >>

(***************************************************************************)
(* findItem: the readdir callback, the stat callbacks, vasyncDone.         *)
(***************************************************************************)
ReaddirDone ==
    /\ status = "running" /\ Len(stack) > 0
    /\ Top.fn = "findItem" /\ Top.phase = "readdir"
    /\ readCount' = CountRead(readCount, Top.currentPath)
    /\ IF ReadDirErr(fs, Top.currentPath) # "null"
       THEN Continue(Return(Rest,
                Err(ReadDirErr(fs, Top.currentPath), Top.currentPath),
                Undefined))
       ELSE LET dirItems == ReadDirNames(fs, Top.currentPath) IN
            Continue(Running(Append(Rest,
                [Top EXCEPT !.phase = "stat",
                            !.dirItems = dirItems,
                            !.ops = [i \in 1..Len(dirItems) |-> PendingOp]])))
    /\ UNCHANGED << fileReads, prev, other, fs, manifests, requireCache, call, statLog, entryPoint >>

StatItemDone ==
    /\ status = "running" /\ Len(stack) > 0
    /\ Top.fn = "findItem" /\ Top.phase = "stat"
    /\ \E i \in 1..Len(Top.ops) :
        /\ Top.ops[i].status = "pending"
        /\ LET dirItemPath == PathJoin[Top.currentPath, Top.dirItems[i]]
               statKind == Stat(fs, dirItemPath)
           IN /\ statLog' = statLog \cup
                    {[path |-> dirItemPath, kind |-> statKind]}
              /\ stack' = Append(Rest,
                    [Top EXCEPT !.ops[i] =
                        StatItemOp(Top, Top.dirItems[i], statKind)])
    /\ UNCHANGED << fileReads, prev, other, fs, manifests, requireCache, call, status, cb, readCount,
                    entryPoint >>

\* VasyncDone not waiting for the stats still pending
VasyncDoneEarly ==
    /\ status = "running" /\ Len(stack) > 0
    /\ Top.fn = "findItem" /\ Top.phase = "stat"
    /\ IF AnyFailed(Top.ops)
       THEN Continue(Return(Rest, Err("MultiError", Top.currentPath),
                            Undefined))
       ELSE IF FoundPath(Top.ops).type # "undefined"
       THEN Continue(Return(Rest, Null, FoundPath(Top.ops)))
       ELSE IF NotFoundStep(Top.recursive, Top.currentPath) = "rootError"
       THEN Continue(Return(Rest, Err("NotFoundAtRoot", Top.itemName),
                            Undefined))
       ELSE IF NotFoundStep(Top.recursive, Top.currentPath) = "goUp"
       THEN Continue(Running(Append(Rest,
                FindItemFrame(Top.itemName, Top.itemType,
                              PathJoin[Top.currentPath, ".."], TRUE))))
       ELSE Continue(Return(Rest, Err("NotFound", Top.itemName), Undefined))
    /\ UNCHANGED << fileReads, prev, other, fs, manifests, requireCache, call, readCount, statLog,
                    entryPoint >>

VasyncDone ==
    /\ status = "running" /\ Len(stack) > 0
    /\ Top.fn = "findItem" /\ Top.phase = "stat"
    /\ AllDone(Top.ops)
    /\ IF AnyFailed(Top.ops)
       THEN Continue(Return(Rest, Err("MultiError", Top.currentPath),
                            Undefined))
       ELSE IF FoundPath(Top.ops).type # "undefined"
       THEN Continue(Return(Rest, Null, FoundPath(Top.ops)))
       ELSE IF NotFoundStep(Top.recursive, Top.currentPath) = "rootError"
       THEN Continue(Return(Rest, Err("NotFoundAtRoot", Top.itemName),
                            Undefined))
       ELSE IF NotFoundStep(Top.recursive, Top.currentPath) = "goUp"
       THEN Continue(Running(Append(Rest,
                FindItemFrame(Top.itemName, Top.itemType,
                              PathJoin[Top.currentPath, ".."], TRUE))))
       ELSE Continue(Return(Rest, Err("NotFound", Top.itemName), Undefined))
    /\ UNCHANGED << fileReads, prev, other, fs, manifests, requireCache, call, readCount, statLog,
                    entryPoint >>

(***************************************************************************)
(* findNodeModulePath: the stat callback of statModuleDir.                 *)
(***************************************************************************)
StatModuleDirDone ==
    /\ status = "running" /\ Len(stack) > 0
    /\ Top.fn = "findNodeModulePath" /\ Top.phase = "statModuleDir"
    /\ LET statKind == Stat(fs, Top.modulePath) IN
        /\ statLog' = statLog \cup
                {[path |-> Top.modulePath, kind |-> statKind]}
        /\ IF IsStatErr(statKind)
           THEN Continue(ModulePathFailed(Rest, Top,
                            Err(statKind, Top.modulePath)))
           ELSE Continue(Return(Rest, Null, Str(Top.modulePath)))
    /\ UNCHANGED << fileReads, prev, other, fs, manifests, requireCache, call, readCount, entryPoint >>

(***************************************************************************)
(* findNodeModuleMainEntry: synchronous up to the call of                  *)
(* findWithRequireSemantics; require() throws when the manifest cannot be  *)
(* loaded, and nothing catches it.                                         *)
(***************************************************************************)
FindNodeModuleMainEntry ==
    /\ status = "running" /\ Len(stack) > 0
    /\ Top.fn = "findNodeModuleMainEntry"
    /\ LET moduleName == getModuleNameFromPath(Top.modulePath)
           pkgJsonPath == PathJoin[Top.modulePath, PACKAGE_JSON]
       IN
       IF pkgJsonPath \notin DOMAIN requireCache
            /\ RequireThrows(fs, manifests, pkgJsonPath)
       THEN /\ status' = "threw"
            /\ stack' = << >>
            /\ other' \in {other, Abandoned(other)}
            /\ UNCHANGED << cb, requireCache, entryPoint >>
       ELSE LET pkgJson == IF pkgJsonPath \in DOMAIN requireCache
                           THEN requireCache[pkgJsonPath]
                           ELSE manifests[pkgJsonPath]
                entryPointPath == EntryPointPath(pkgJson)
            IN /\ requireCache' =
                    IF pkgJsonPath \in DOMAIN requireCache THEN requireCache
                    ELSE requireCache @@ (pkgJsonPath :> pkgJson)
               /\ entryPoint' = [type |-> "string", val |-> entryPointPath,
                                  manifest |-> pkgJsonPath, doc |-> pkgJson]
               /\ UNCHANGED other
               /\ IF entryPointPath = ""
                  THEN Continue(Return(Rest,
                            Err("NoEntryPoint", moduleName), Undefined))
                  ELSE Continue(Running(Rest \o
                            EnterFindWithRequireSemantics(
                                Top.modulePath, entryPointPath)))
    /\ UNCHANGED << fileReads, prev, fs, manifests, call, readCount, statLog >>

(***************************************************************************)
(* findWithRequireSemantics, file branch: the stat callbacks of tryOpen    *)
(* and the completion callback of forEachParallel.                         *)
(***************************************************************************)
TryOpenDone ==
    /\ status = "running" /\ Len(stack) > 0
    /\ Top.fn = "findWithRequireSemantics" /\ Top.branch = "file"
    /\ \E i \in 1..Len(Top.ops) :
        /\ Top.ops[i].status = "pending"
        /\ LET statKind == Stat(fs, Top.tryPaths[i]) IN
            /\ statLog' = statLog \cup
                    {[path |-> Top.tryPaths[i], kind |-> statKind]}
            /\ stack' = Append(Rest,
                    [Top EXCEPT !.ops[i] =
                        TryOpenOp(Top.tryPaths[i], statKind)])
    /\ UNCHANGED << fileReads, prev, other, fs, manifests, requireCache, call, status, cb, readCount,
                    entryPoint >>

\* TryPathsDone taking the first success by completion time: it runs as soon
\* as some stat has succeeded instead of waiting for all of them
TryPathsDoneFirstSuccess ==
    /\ status = "running" /\ Len(stack) > 0
    /\ Top.fn = "findWithRequireSemantics" /\ Top.branch = "file"
    /\ \E i \in 1..Len(Top.ops) :
        /\ Top.ops[i].status = "ok"
        /\ Continue(Return(Rest, Null, Top.ops[i].result))
    /\ UNCHANGED << fileReads, prev, other, fs, manifests, requireCache, call, readCount,
                    statLog, entryPoint >>

TryPathsDone ==
    /\ status = "running" /\ Len(stack) > 0
    /\ Top.fn = "findWithRequireSemantics" /\ Top.branch = "file"
    /\ AllDone(Top.ops)
    /\ IF SuccessOp(Top.ops) # 0
       THEN Continue(Return(Rest, Null, Top.ops[SuccessOp(Top.ops)].result))
       ELSE Continue(Return(Rest,
                Err("NoVariation", Top.currentPath \o " + " \o Top.item),
                Undefined))
    /\ UNCHANGED << fileReads, prev, other, fs, manifests, requireCache, call, readCount, statLog,
                    entryPoint >>

(***************************************************************************)
(* openWithRequireSemantics: the readFile callback of read.                *)
(***************************************************************************)
ReadFileDone ==
    /\ status = "running" /\ Len(stack) > 0
    /\ Top.fn = "openWithRequireSemantics" /\ Top.phase = "read"
    /\ fileReads' = fileReads \cup {Top.foundData.foundPath}
    /\ \E readErr \in ReadErrs :
        LET done == ReadComplete(Top.foundData, readErr) IN
        Continue(Return(Rest, done.err, done.result))
    /\ UNCHANGED << prev, other, fs, manifests, requireCache, call, readCount,
                    statLog, entryPoint >>

Next ==
    \/ CallFindItem
    \/ CallFindNodeModulePath
    \/ CallFindNodeModuleMainEntry
    \/ CallFindWithRequireSemantics
    \/ CallOpenWithRequireSemantics
    \/ EditManifest
    \/ ReaddirDone
    \/ StatItemDone
    \/ VasyncDone
    \/ StatModuleDirDone
    \/ FindNodeModuleMainEntry
    \/ TryOpenDone
    \/ TryPathsDone
    \/ ReadFileDone

Spec == Init /\ [][Next]_vars

\* one turn of node's event loop: the callback of a completed file system
\* request, or the next function of a waterfall
Turn ==
    \/ ReaddirDone
    \/ StatItemDone
    \/ VasyncDone
    \/ StatModuleDirDone
    \/ FindNodeModuleMainEntry
    \/ TryOpenDone
    \/ TryPathsDone
    \/ ReadFileDone

\* every file system request completes and the event loop runs its
\* callback: a call with a pending request does not stand still
Fairness == WF_vars(Turn)

\* the disk with the one file /p/a
PlainDisk == [p \in {"/", "/p"} |-> "dir"] @@ ("/p/a" :> "file")

\* the program on a disk where the module is installed, or on the plain one
InstalledInit == Init /\ fs \in {d.kind : d \in ModuleDisks} \cup {PlainDisk}

FairSpec == InstalledInit /\ [][Next]_vars /\ Fairness


(***************************************************************************)
(* Properties.                                                             *)
(***************************************************************************)
IsFile(p) == Stat(fs, p) = "file"

Returned == status = "returned"

Resolving == call.op = "findWithRequireSemantics"

\* a specifier that takes the file branch (relative or absolute)
IsFileSpecifier(item) ==
    ~isNodeModuleMainRequire(item) /\ ~isNodeModuleRequire(item)

ReturnedPath(p) ==
    cb.count = 1 /\ cb.err = Null /\ cb.result.type = "object"
        /\ cb.result.foundPath = p

\* C1: for a relative or absolute specifier the result is the earliest
\* candidate, in list order, that is a regular file, whatever the order in
\* which the stat callbacks completed.
C1_EarliestCandidateWins ==
    (Returned /\ Resolving /\ IsFileSpecifier(call.item)) =>
        LET cands == TryPaths(call.currentPath, call.item)
            files == {i \in 1..Len(cands) : IsFile(cands[i])}
        IN files # {} => ReturnedPath(cands[MinOf[files]])

\* C1 witness: a call returned the earlier of two different candidates that
\* are both regular files.
C1_Witness ==
    /\ Returned /\ Resolving /\ call.item = "./a"
    /\ IsFile("/p/a") /\ IsFile("/p/a.js")
    /\ ReturnedPath("/p/a")

\* C3: resolve(baseDir, './a') returns baseDir/a.js when that is the only
\* regular file among baseDir/a, baseDir/a/index.js and baseDir/a.js, and
\* baseDir/a/index.js when that is the only one.
C3_ExtensionOrIndex ==
    (Returned /\ Resolving /\ call.item = "./a") =>
        LET a     == call.currentPath \o "/a"
            index == call.currentPath \o "/a/index.js"
            ajs   == call.currentPath \o "/a.js"
        IN /\ (IsFile(ajs) /\ ~IsFile(a) /\ ~IsFile(index))
                => ReturnedPath(ajs)
           /\ (IsFile(index) /\ ~IsFile(a) /\ ~IsFile(ajs))
                => ReturnedPath(index)

\* C3 witness: only /p/a/index.js is a regular file and it was returned.
C3_Witness ==
    /\ Returned /\ Resolving /\ call.item = "./a" /\ call.currentPath = "/p"
    /\ IsFile("/p/a/index.js") /\ ~IsFile("/p/a") /\ ~IsFile("/p/a.js")
    /\ ReturnedPath("/p/a/index.js")

\* the manifest document a findNodeModuleMainEntry of this call chose from:
\* pkgJson, what require() returned
ChosenFrom == entryPoint.doc

IsNonEmptyString(field) == field.type = "string" /\ field.val # ""

\* C5: the entry point is the browser field when it is a string, otherwise
\* the main field when it is a string, otherwise 'index.js'; with a string
\* browser field the file found is never the one main names.
C5_BrowserThenMainThenIndex ==
    entryPoint.type = "string" =>
        /\ ChosenFrom.browser.type = "string"
            => entryPoint.val = ChosenFrom.browser.val
        /\ (ChosenFrom.browser.type # "string"
                /\ ChosenFrom.main.type = "string")
            => entryPoint.val = ChosenFrom.main.val
        /\ (ChosenFrom.browser.type # "string"
                /\ ChosenFrom.main.type # "string")
            => entryPoint.val = "index.js"
        /\ (Returned /\ call.op = "findNodeModuleMainEntry"
                /\ ChosenFrom.browser.type = "string" /\ cb.err = Null)
            => ReturnedPath(PathJoin[call.modulePath,
                                     ChosenFrom.browser.val])

\* C5 witness: browser and main are both strings, and the browser file was
\* returned.
C5_Witness ==
    /\ Returned /\ call.op = "findNodeModuleMainEntry"
    /\ entryPoint.type = "string"
    /\ ChosenFrom.browser = FieldStr("b.js")
    /\ ChosenFrom.main = FieldStr("dist/entry.js")
    /\ ReturnedPath(ModuleDir \o "/b.js")

\* C6: an empty-string or non-string browser field is treated as absent
\* (main is chosen, then index.js), likewise main, and neither is an error.
C6_EmptyFieldIsAbsent ==
    entryPoint.type = "string" =>
        /\ entryPoint.val =
             (IF IsNonEmptyString(ChosenFrom.browser)
              THEN ChosenFrom.browser.val
              ELSE IF IsNonEmptyString(ChosenFrom.main)
              THEN ChosenFrom.main.val
              ELSE "index.js")
        /\ cb.err.code # "NoEntryPoint"

\* C6 failing state: the browser field is '' and main names a file, and
\* the call ended with the missing-entry-point error.
C6_Witness ==
    /\ Returned /\ call.op = "findNodeModuleMainEntry"
    /\ entryPoint.type = "string"
    /\ ChosenFrom.browser = FieldStr("")
    /\ ChosenFrom.main = FieldStr("dist/entry.js")
    /\ IsFile(ModuleDir \o "/dist/entry.js")
    /\ cb.err.code = "NoEntryPoint"

\* the manifest of the module directory is missing or cannot be parsed
ManifestUnusable(modulePath) ==
    RequireThrows(fs, manifests, PathJoin[modulePath, PACKAGE_JSON])

\* the call has ended, by calling back or by an exception
Ended == status \in {"returned", "threw"}

\* C7: when the manifest of the module directory is missing or cannot be
\* parsed, findNodeModuleMainEntry, and resolve of a bare specifier whose
\* module directory was found, call back exactly once with an error and
\* raise no exception.
C7_ManifestFailureIsCalledBack ==
    /\ (Ended /\ call.op = "findNodeModuleMainEntry"
            /\ ManifestUnusable(call.modulePath))
        => (status = "returned" /\ cb.count = 1 /\ cb.err # Null)
    /\ (Ended /\ Resolving /\ call.item \in ModuleNames
            /\ ~IsStatErr(Stat(fs, "/p/node_modules/" \o call.item))
            /\ ManifestUnusable("/p/node_modules/" \o call.item))
        => (status = "returned" /\ cb.count = 1 /\ cb.err # Null)

\* C7 failing state: the manifest is unusable and the call ended by an
\* exception, the callback never called.
C7_Witness ==
    /\ status = "threw" /\ call.op = "findNodeModuleMainEntry"
    /\ ManifestUnusable(call.modulePath)
    /\ cb.count = 0


\* C2: every resolve of a non-empty specifier from an absolute base
\* directory completes, whatever the manifest's browser and main hold
\* (stated here in its weakest form: the call ends, by a callback or by an
\* exception).
C2_ResolveCompletes ==
    (status = "running" /\ Resolving) ~> (status # "running")

\* the file that probing specifier e in directory dir selects: the first
\* candidate that is a regular file, "" if there is none
EntryFile(dir, e) ==
    LET cands == TryPaths(dir, e)
        files == {i \in 1..Len(cands) : IsFile(cands[i])}
    IN IF files = {} THEN "" ELSE cands[MinOf[files]]

\* C4: a bare specifier resolves to the entry file, inside the module
\* directory found by findNodeModulePath, that the manifest selects; so
\* with main = 'dist/entry.js' resolve('/p', 'libX') returns
\* /p/node_modules/libX/dist/entry.js.
C4_BareSpecifierFindsEntryFile ==
    (Ended /\ Resolving /\ isNodeModuleMainRequire(call.item)
        /\ Stat(fs, "/p/node_modules/" \o call.item) = "dir"
        /\ ~ManifestUnusable("/p/node_modules/" \o call.item)) =>
        LET moduleDir == "/p/node_modules/" \o call.item
            pkgJson == manifests[PathJoin[moduleDir, PACKAGE_JSON]]
            selected == IF pkgJson.browser.type = "string"
                        THEN pkgJson.browser.val
                        ELSE IF pkgJson.main.type = "string"
                        THEN pkgJson.main.val
                        ELSE "index.js"
        IN (selected # "" /\ EntryFile(moduleDir, selected) # "")
              => ReturnedPath(EntryFile(moduleDir, selected))

\* C4 failing state: main is 'index', the module directory holds index.js,
\* and resolve('/p', 'libX') ended with the error that no module 'index'
\* was found.
C4_Witness ==
    /\ Returned /\ Resolving
    /\ call.currentPath = "/p" /\ call.item = "libX"
    /\ ~ManifestUnusable(ModuleDir)
    /\ manifests[ModuleDir \o "/package.json"] =
            Doc(FieldUndefined, FieldStr("index"))
    /\ IsFile(ModuleDir \o "/index.js")
    /\ cb.err = Err("ModuleNotFound", "index")

Searching == call.op = "findItem"

\* what fs.stat reports for an entry of the requested kind
KindOf(itemType) == IF itemType = "directory" THEN "dir" ELSE "file"

\* directory dir has an immediate entry of the requested name and kind
HasTarget(dir) ==
    Stat(fs, PathJoin[dir, call.itemName]) = KindOf(call.itemType)

\* reading dir meets an I/O error: readdir fails, or the stat of an entry
IoFault(dir) ==
    \/ Stat(fs, dir) # "dir"
    \/ \E p \in DOMAIN fs : p # "/" /\ Dirname[p] = dir /\ fs[p] = "broken"

\* dir and its ancestors, up to the root
WalkUp[dir \in STRING] ==
    IF dir = "/" THEN {"/"} ELSE {dir} \cup WalkUp[PathJoin[dir, ".."]]

\* the nearest directory, from dir upwards, that has the target; "" if
\* there is none
RECURSIVE NearestMatch(_)
NearestMatch(dir) ==
    IF HasTarget(dir) THEN dir
    ELSE IF dir = "/" THEN ""
    ELSE NearestMatch(PathJoin[dir, ".."])

\* C8: findItem with recursive = false reads only startDir (no readdir and
\* no stat outside it), and when startDir has no entry of the requested name
\* and kind (and reading it meets no I/O error) it fails with the not-found
\* error and no result.
C8_NoRecursionReadsOnlyStartDir ==
    (Searching /\ ~call.recursive) =>
        /\ DOMAIN readCount \subseteq {call.currentPath}
        /\ \A s \in statLog : Dirname[s.path] = call.currentPath
        /\ (Returned /\ ~HasTarget(call.currentPath)
                /\ ~IoFault(call.currentPath))
            => (cb.count = 1 /\ cb.err.code = "NotFound"
                    /\ cb.result = Undefined)

\* C8 witness: the parent has the target, startDir has other entries only,
\* and the call failed having read startDir alone.
C8_Witness ==
    /\ Returned /\ Searching /\ ~call.recursive
    /\ call.currentPath = "/p" /\ call.itemType = "file"
    /\ Stat(fs, "/x") = "file" /\ Stat(fs, "/p/x") = "dir"
    /\ cb.err.code = "NotFound"
    /\ readCount = ("/p" :> 1)
    /\ [path |-> "/p/x", kind |-> "dir"] \in statLog

\* C9: findItem with recursive = true returns the matching entry of the
\* nearest directory, among startDir and its ancestors, that has an entry of
\* the requested name and kind, provided no directory up to that one meets
\* an I/O error; and whatever it returns is that entry.
C9_NearestMatchIsReturned ==
    (Returned /\ Searching /\ call.recursive) =>
        LET near == NearestMatch(call.currentPath) IN
        /\ (near # "" /\ \A d \in WalkUp[call.currentPath] :
                            near \in WalkUp[d] => ~IoFault(d))
            => (cb.count = 1 /\ cb.err = Null
                    /\ cb.result = Str(PathJoin[near, call.itemName]))
        /\ cb.err = Null
            => (near # "" /\ cb.result = Str(PathJoin[near, call.itemName]))

\* C9 witness: startDir has the name with the other kind, its parent has the
\* target and so has the root; the parent's entry was returned.
C9_Witness ==
    /\ Returned /\ Searching /\ call.recursive
    /\ call.currentPath = "/p/s" /\ call.itemType = "file"
    /\ Stat(fs, "/p/s/x") = "dir" /\ Stat(fs, "/p/x") = "file"
    /\ Stat(fs, "/x") = "file"
    /\ cb.err = Null /\ cb.result = Str("/p/x")

\* C10: findItem with recursive = true reads no directory but startDir and
\* its ancestors and none of them twice; when none of them has the target
\* (and none meets an I/O error) it fails with the not-found error of the
\* root and no result, having read each of them once.
C10_NotFoundAfterOnePassToRoot ==
    (Searching /\ call.recursive) =>
        /\ DOMAIN readCount \subseteq WalkUp[call.currentPath]
        /\ \A d \in DOMAIN readCount : readCount[d] = 1
        /\ (Returned /\ NearestMatch(call.currentPath) = ""
                /\ \A d \in WalkUp[call.currentPath] : ~IoFault(d))
            => /\ cb.count = 1 /\ cb.err.code = "NotFoundAtRoot"
               /\ cb.result = Undefined
               /\ DOMAIN readCount = WalkUp[call.currentPath]

\* C10 witness: a search from /p/s failed at the root after one read of
\* /p/s, /p and /.
C10_Witness ==
    /\ Returned /\ Searching /\ call.recursive
    /\ call.currentPath = "/p/s"
    /\ cb.err.code = "NotFoundAtRoot"
    /\ readCount = [d \in {"/p/s", "/p", "/"} |-> 1]

FindingModule == call.op = "findNodeModulePath"

\* directory dir has a dependency directory in which module m exists
HasModule(dir, m) ==
    /\ Stat(fs, PathJoin[dir, NODE_MODULES]) = "dir"
    /\ ~IsStatErr(Stat(fs, PathJoin[PathJoin[dir, NODE_MODULES], m]))

\* the nearest directory, from dir upwards, that has module m; "" if there
\* is none
RECURSIVE NearestModuleDir(_, _)
NearestModuleDir(dir, m) ==
    IF HasModule(dir, m) THEN dir
    ELSE IF dir = "/" THEN ""
    ELSE NearestModuleDir(PathJoin[dir, ".."], m)

ModulePathOf(dir, m) == PathJoin[PathJoin[dir, NODE_MODULES], m]

\* the returned path is D/node_modules/m of the nearest D that has m, when
\* no directory up to D meets an I/O error; and a returned path is always
\* that of a directory, among startDir and its ancestors, that has m
NearestModuleIsReturned ==
    (Returned /\ FindingModule) =>
        LET near == NearestModuleDir(call.currentPath, call.moduleName) IN
        /\ (near # "" /\ \A d \in WalkUp[call.currentPath] :
                            near \in WalkUp[d] => ~IoFault(d))
            => (cb.count = 1 /\ cb.err = Null
                    /\ cb.result = Str(ModulePathOf(near, call.moduleName)))
        /\ cb.err = Null
            => \E d \in WalkUp[call.currentPath] :
                    /\ HasModule(d, call.moduleName)
                    /\ cb.result = Str(ModulePathOf(d, call.moduleName))

\* a failed search is retried from the parent of its starting directory
RetryStartsOneAbove ==
    (FindingModule /\ call' = call /\ Len(stack) > 0 /\ Len(stack') > 0
        /\ stack'[1].currentPath # stack[1].currentPath)
    => stack'[1].currentPath = PathJoin[stack[1].currentPath, ".."]

C12_ReturnedModulePathIsDirectory ==
    (Returned /\ FindingModule /\ cb.err = Null) =>
        Stat(fs, cb.result.val) = "dir"

\* C12 failing state: /p/node_modules/libX is a regular file and it was
\* returned as the module's directory.
C12_Witness ==
    /\ Returned /\ FindingModule /\ call.currentPath = "/p"
    /\ Stat(fs, ModuleDir) = "file"
    /\ cb.count = 1 /\ cb.err = Null /\ cb.result = Str(ModuleDir)

\* C13: when no dependency directory of startDir or of an ancestor contains
\* the module, findNodeModulePath calls back once, with the module-not-found
\* error naming the module and no result, in every layout.
C13_ModuleNotFoundNamesModule ==
    (Returned /\ FindingModule
        /\ NearestModuleDir(call.currentPath, call.moduleName) = "")
    => (cb.count = 1 /\ cb.err = Err("ModuleNotFound", call.moduleName)
            /\ cb.result = Undefined)

\* C13 failing state: /node_modules is a directory without libX, no
\* dependency directory has libX, and the error called back is the ENOENT of
\* the stat of /node_modules/libX.
C13_Witness ==
    /\ Returned /\ FindingModule
    /\ NearestModuleDir(call.currentPath, call.moduleName) = ""
    /\ Stat(fs, "/node_modules") = "dir"
    /\ cb.count = 1 /\ cb.err = Err("ENOENT", "/node_modules/libX")

\* C14: for a relative or absolute specifier a candidate whose stat fails or
\* that is not a regular file is discarded and the others still count: the
\* call fails, with the resolution error and no result, exactly when no
\* candidate is a regular file, and otherwise returns one that is.
C14_FailsIffNoCandidateIsFile ==
    (Returned /\ Resolving /\ IsFileSpecifier(call.item)) =>
        LET cands == TryPaths(call.currentPath, call.item)
            files == {i \in 1..Len(cands) : IsFile(cands[i])}
        IN /\ cb.count = 1
           /\ files = {} <=> cb.err.code = "NoVariation"
           /\ files = {} => cb.result = Undefined
           /\ files # {} =>
                /\ cb.err = Null
                /\ \E i \in files : cb.result = Found(cands[i], "file")

\* C14 witness: /p/a is a directory, the stat of /p/a.js fails, and
\* /p/a/index.js, a regular file, was returned.
C14_Witness ==
    /\ Returned /\ Resolving /\ call.item = "./a" /\ call.currentPath = "/p"
    /\ Stat(fs, "/p/a") = "dir" /\ Stat(fs, "/p/a.js") = "EIO"
    /\ [path |-> "/p/a.js", kind |-> "EIO"] \in statLog
    /\ cb.err = Null /\ cb.result = Found("/p/a/index.js", "file")

\* C15: no state is kept between calls, so the manifest document a call of
\* findNodeModuleMainEntry selects the entry point from is the one on disk
\* at the time of that call, also after the manifest was rewritten.
C15_EntryPointFromManifestOnDisk ==
    [][(entryPoint' # entryPoint /\ entryPoint'.type = "string")
        => entryPoint'.doc = manifests'[entryPoint'.manifest]]_vars

\* C15 failing state: a running call has selected its entry point from a
\* document that differs from the manifest on disk.
C15_Witness ==
    /\ status = "running" /\ call.op = "findNodeModuleMainEntry"
    /\ entryPoint.type = "string"
    /\ manifests[entryPoint.manifest] = Doc(FieldStr("b.js"), FieldUndefined)
    /\ entryPoint.doc = Doc(FieldUndefined, FieldStr("dist/entry.js"))
    /\ entryPoint.val = "dist/entry.js"

\* C16: a resolve repeated with the same arguments, nothing written to the
\* file system in between, ends as the call before it did: with the same
\* found path or the same kind of error, whatever the order of the stat
\* callbacks in either call.
C16_RepeatedResolveSameOutcome ==
    (Ended /\ Resolving /\ prev.status # "none") =>
        /\ status = prev.status
        /\ cb.err.code = prev.err.code
        /\ cb.result = prev.result

\* C16 witness: /p/a and /p/a.js are both regular files, and the second
\* resolve of './a' returned /p/a as the first had.
C16_Witness ==
    /\ Returned /\ Resolving /\ call.item = "./a" /\ call.currentPath = "/p"
    /\ IsFile("/p/a") /\ IsFile("/p/a.js")
    /\ prev.status = "returned" /\ prev.result = Found("/p/a", "file")
    /\ cb.result = prev.result

Opening == call.op = "openWithRequireSemantics"

\* C18: openWithRequireSemantics on a relative specifier: when resolve finds
\* no file it calls back the resolution error, no result, and reads nothing;
\* otherwise it reads the file resolve selects, and nothing else, and calls
\* back either that path with the stat information and the contents, or
\* the read error and no result.
C18_OpenReadsWhatResolveFinds ==
    (Returned /\ Opening) =>
        LET found == EntryFile(call.currentPath, call.item) IN
        /\ cb.count = 1
        /\ found = "" =>
            /\ cb.err.code = "NoVariation" /\ cb.result = Undefined
            /\ fileReads = {}
        /\ found # "" =>
            /\ fileReads = {found}
            /\ \/ /\ cb.err = Null
                  /\ cb.result = [type |-> "object", foundPath |-> found,
                                  statInfo |-> "file",
                                  contents |-> FileContents(found)]
               \/ /\ cb.err = Err("EACCES", found)
                  /\ cb.result = Undefined

\* C18 witness: /p/a.js is the only candidate that is a file; it was read
\* and the read failed.
C18_Witness ==
    /\ Returned /\ Opening /\ call.item = "./a" /\ call.currentPath = "/p"
    /\ ~IsFile("/p/a") /\ IsFile("/p/a.js")
    /\ fileReads = {"/p/a.js"}
    /\ cb.err = Err("EACCES", "/p/a.js") /\ cb.result = Undefined

\* the directory at which a search from dir ends: the first one, going up,
\* that meets an I/O error or has the target, else the last one searched
RECURSIVE LastSearched(_)
LastSearched(dir) ==
    IF IoFault(dir) \/ HasTarget(dir) \/ ~call.recursive \/ dir = "/"
    THEN dir
    ELSE LastSearched(PathJoin[dir, ".."])

\* the error findItem calls back for an I/O error in dir: the error of
\* readdir, or vasync's MultiError holding the errors of the failed stats
IoErrorOf(dir) ==
    IF ReadDirErr(fs, dir) # "null" THEN Err(ReadDirErr(fs, dir), dir)
    ELSE Err("MultiError", dir)

\* C19: when the readdir of a directory findItem searches fails, or the stat
\* of one of its entries, the call fails with that error (not with a
\* not-found error) and no result, and no directory above it is read.
C19_IoErrorEndsTheSearch ==
    (Returned /\ Searching /\ IoFault(LastSearched(call.currentPath))) =>
        LET last == LastSearched(call.currentPath) IN
        /\ cb.count = 1 /\ cb.err = IoErrorOf(last) /\ cb.result = Undefined
        /\ cb.err.code \notin {"NotFound", "NotFoundAtRoot"}
        /\ DOMAIN readCount = {d \in WalkUp[call.currentPath] : last \in WalkUp[d]}
        /\ \A t \in statLog : last \in WalkUp[Dirname[t.path]]

\* C19 witness: a recursive search from /p/s went up to /p, where the stat
\* of z failed; it ended with the error although /x is the target.
C19_Witness ==
    /\ Returned /\ Searching /\ call.recursive /\ call.currentPath = "/p/s"
    /\ call.itemType = "file"
    /\ Stat(fs, "/p/z") = "EIO" /\ Stat(fs, "/x") = "file"
    /\ [path |-> "/p/z", kind |-> "EIO"] \in statLog
    /\ cb.err = Err("MultiError", "/p") /\ cb.result = Undefined
    /\ DOMAIN readCount = {"/p/s", "/p"}

(***************************************************************************)
(* findParentPath, a synchronous function of two paths.                    *)
(***************************************************************************)
\* s[i] of JavaScript: the character at the zero based index i, or the
\* empty string for undefined, which equals no character
CharAt(s, i) ==
    IF i >= 0 /\ i < Len(s) THEN SubSeq(s, i + 1, i + 1) ELSE ""

\* the number of leading characters of path1 that path2 has at the same
\* index: the forEach loop stops at the first difference
MatchedIdx(path1, path2) ==
    MaxOf[{n \in 0..Len(path1) :
            n <= Len(path2) /\ SubSeq(path1, 1, n) = SubSeq(path2, 1, n)}]

\* commonPath.split(path.sep).slice(0, -1).join(path.sep)
DropLastSegment(commonPath) ==
    JoinSegs[SubSeq(Split[commonPath], 1, Len(Split[commonPath]) - 1)]

\* findParentPath with the tests on path2 lost
findParentPathOneSided(path1, path2) ==
    LET matchedIdx == MatchedIdx(path1, path2)
        commonPath == SubSeq(path1, 1, matchedIdx)
        kept ==
            \/ Len(commonPath) = Len(path1)
            \/ CharAt(commonPath, Len(commonPath) - 1) = "/"
            \/ CharAt(path1, matchedIdx + 1) = "/"
        stripped == IF kept THEN commonPath ELSE DropLastSegment(commonPath)
    IN  IF EndsWith[stripped, "/"] THEN stripped ELSE stripped \o "/"

findParentPath(path1, path2) ==
    LET matchedIdx == MatchedIdx(path1, path2)
        commonPath == SubSeq(path1, 1, matchedIdx)
        kept ==
            \/ Len(commonPath) = Len(path1)
            \/ Len(commonPath) = Len(path2)
            \/ CharAt(commonPath, Len(commonPath) - 1) = "/"
            \/ CharAt(path1, matchedIdx + 1) = "/"
            \/ CharAt(path2, matchedIdx + 1) = "/"
        stripped == IF kept THEN commonPath ELSE DropLastSegment(commonPath)
    IN  IF EndsWith[stripped, "/"] THEN stripped ELSE stripped \o "/"

\* the paths findParentPath is called with
ParentPaths ==
    { "/a", "/a/", "/a/b", "/a/bb", "/a/ab", "/a/bc", "/a/b/c", "/a/bx/c",
      "/a/by/c", "/ab", "/a/b/cd", "/a/b/ce" }

\* a call of findParentPath returns at once
CallFindParentPath ==
    /\ status # "running"
    /\ \E path1 \in ParentPaths, path2 \in ParentPaths :
        /\ call' = [op |-> "findParentPath", path1 |-> path1,
                    path2 |-> path2]
        /\ cb' = [count |-> 1, err |-> Null,
                  result |-> Str(findParentPath(path1, path2))]
    /\ status' = "returned"
    /\ UNCHANGED << fs, manifests, requireCache, stack, readCount, statLog,
                    fileReads, prev, other, entryPoint >>

\* findParentPath reads no disk: one is enough
PathInit == Init /\ fs = PlainDisk

(***************************************************************************)
(* The other synchronous helpers: isNodeModuleRequire,                     *)
(* isNodeModuleMainRequire, getModuleNameFromPath.                         *)
(***************************************************************************)
Bool(b) == [type |-> "boolean", val |-> b]

\* the require strings the helpers are called with
RequireStrings ==
    { pre \o stem \o suf :
        pre \in {"", "/", "./", "../", ".", ".."},
        stem \in {"", "a", "lodash", "lodash/array", "lodash/array/map",
                  "a.b"},
        suf \in {"", ".js", "/", ".json"} }

\* the paths getModuleNameFromPath is called with
ModulePaths ==
    { "", ModuleDir, "/project/node_modules/lodash/array/map",
      "/project/lodash/array/map",
      "/project/node_modules/lodash/node_modules/jquery",
      "/project/node_modules/lodash/node_modules/jquery/subdir",
      "/p/node_modules", "/p/node_modules/", "node_modules/x",
      "/p/my_node_modules/foo/bar" }

\* a synchronous helper returns at once
ReturnAtOnce(value) ==
    /\ status # "running"
    /\ status' = "returned"
    /\ cb' = [count |-> 1, err |-> Null, result |-> value]
    /\ UNCHANGED << fs, manifests, requireCache, stack, readCount, statLog,
                    fileReads, prev, other, entryPoint >>

CallIsNodeModuleRequire ==
    \E itemPath \in RequireStrings :
        /\ call' = [op |-> "isNodeModuleRequire", itemPath |-> itemPath]
        /\ ReturnAtOnce(Bool(isNodeModuleRequire(itemPath)))

CallIsNodeModuleMainRequire ==
    \E itemPath \in RequireStrings :
        /\ call' = [op |-> "isNodeModuleMainRequire", itemPath |-> itemPath]
        /\ ReturnAtOnce(Bool(isNodeModuleMainRequire(itemPath)))

CallGetModuleNameFromPath ==
    \E itemPath \in ModulePaths :
        /\ call' = [op |-> "getModuleNameFromPath", itemPath |-> itemPath]
        /\ ReturnAtOnce(Str(getModuleNameFromPath(itemPath)))

HelperNext ==
    \/ CallFindParentPath
    \/ CallIsNodeModuleRequire
    \/ CallIsNodeModuleMainRequire
    \/ CallGetModuleNameFromPath

PathSpec == PathInit /\ [][HelperNext]_vars

\* the names of the directories on the way to p, root first
DirSegments(p) == SelectSeq(Split[p], LAMBDA seg : seg # "")

\* the deepest directory made of whole segments both paths begin with
SharedDirectory(a, b) ==
    LET sa == DirSegments(a)
        sb == DirSegments(b)
        n == MaxOf[{k \in 0..Len(sa) :
                    k <= Len(sb) /\ SubSeq(sa, 1, k) = SubSeq(sb, 1, k)}]
    IN  IF n = 0 THEN "/" ELSE "/" \o JoinSegs[SubSeq(sa, 1, n)] \o "/"

\* C20: findParentPath(a, b) is the deepest directory made of the whole
\* segments a and b share; a shared beginning of two different segment
\* names is not part of it.
C20_ParentPathOfWholeSegments ==
    (Returned /\ call.op = "findParentPath") =>
        cb.result = Str(SharedDirectory(call.path1, call.path2))

\* C20 witness: '/a/b' is a character prefix of '/a/bc' and the result is
\* '/a/b/', which does not contain '/a/bc'.
C20_Witness ==
    /\ Returned /\ call.op = "findParentPath"
    /\ call.path1 = "/a/b" /\ call.path2 = "/a/bc"
    /\ cb.result = Str("/a/b/")

(***************************************************************************)
(* Two callers in one process: node runs one callback at a time, and the   *)
(* next one may belong to either caller.                                   *)
(***************************************************************************)
\* what belongs to the caller whose callbacks run now
Me ==
    [call |-> call, stack |-> stack, status |-> status, cb |-> cb,
     readCount |-> readCount, statLog |-> statLog, fileReads |-> fileReads,
     prev |-> prev, entryPoint |-> entryPoint]

\* a caller that has not called yet
IdleCaller ==
    [call |-> [op |-> "none"], stack |-> << >>, status |-> "idle",
     cb |-> NoCallback, readCount |-> Empty, statLog |-> {},
     fileReads |-> {}, prev |-> NoPrev, entryPoint |-> Undefined]

\* the event loop goes on with the other caller
Switch ==
    /\ other.status # "absent"
    /\ other' = Me
    /\ call' = other.call
    /\ stack' = other.stack
    /\ status' = other.status
    /\ cb' = other.cb
    /\ readCount' = other.readCount
    /\ statLog' = other.statLog
    /\ fileReads' = other.fileReads
    /\ prev' = other.prev
    /\ entryPoint' = other.entryPoint
    /\ UNCHANGED << fs, manifests, requireCache >>

\* a project /p with a sub-directory s, files x and a.js, and the installed
\* module libX whose manifest is there or not
ConcDisks ==
    { Disk(ModuleTree @@ ("/p/x" :> "file") @@ ("/p/s/x" :> "dir")
             @@ ("/p/a.js" :> "file") @@ m.kind, m.json) :
        m \in { Disk(Empty, Empty),
                Disk((ModuleDir \o "/package.json") :> "file",
                     (ModuleDir \o "/package.json") :>
                        Doc(FieldUndefined, FieldStr("dist/entry.js"))),
                Disk((ModuleDir \o "/package.json") :> "file",
                     (ModuleDir \o "/package.json") :> Unparseable) } }

ConcInit ==
    /\ \E d \in ConcDisks : fs = d.kind /\ manifests = d.json
    /\ requireCache = Empty
    /\ call = IdleCaller.call
    /\ stack = IdleCaller.stack
    /\ status = IdleCaller.status
    /\ cb = IdleCaller.cb
    /\ readCount = IdleCaller.readCount
    /\ statLog = IdleCaller.statLog
    /\ entryPoint = IdleCaller.entryPoint
    /\ prev = IdleCaller.prev
    /\ fileReads = IdleCaller.fileReads
    /\ other = IdleCaller

ConcNext ==
    \/ CallFindItem
    \/ CallFindWithRequireSemantics
    \/ ReaddirDone
    \/ StatItemDone
    \/ VasyncDone
    \/ StatModuleDirDone
    \/ FindNodeModuleMainEntry
    \/ TryOpenDone
    \/ TryPathsDone
    \/ Switch

ConcSpec == ConcInit /\ [][ConcNext]_vars

\* a call that, run alone, ends with its callback called once
CompletesAlone(c) ==
    \/ c.op = "findItem"
    \/ c.op = "findWithRequireSemantics" /\ IsFileSpecifier(c.item)

\* what such a call calls back with when it runs alone
AloneOutcome ==
    IF Searching
    THEN LET last == LastSearched(call.currentPath) IN
         IF IoFault(last)
         THEN [count |-> 1, err |-> IoErrorOf(last), result |-> Undefined]
         ELSE IF HasTarget(last)
         THEN [count |-> 1, err |-> Null,
               result |-> Str(PathJoin[last, call.itemName])]
         ELSE [count |-> 1,
               err |-> Err(IF call.recursive THEN "NotFoundAtRoot"
                           ELSE "NotFound", call.itemName),
               result |-> Undefined]
    ELSE LET file == EntryFile(call.currentPath, call.item) IN
         IF file = ""
         THEN [count |-> 1,
               err |-> Err("NoVariation",
                           call.currentPath \o " + " \o call.item),
               result |-> Undefined]
         ELSE [count |-> 1, err |-> Null, result |-> Found(file, "file")]

\* every call that has called back did so once, with its outcome alone
SameOutcomeAsAlone ==
    (Returned /\ CompletesAlone(call)) => cb = AloneOutcome

\* a step of one caller leaves what belongs to the other caller as it is
OtherUntouched ==
    \/ other' = other
    \/ other' = Me /\ Me' = other

\* no call that would complete alone is left without its outcome
NoCallAbandoned ==
    /\ status = "abandoned" => ~CompletesAlone(call)
    /\ other.status = "abandoned" => ~CompletesAlone(other.call)

\* C17: of two callers with distinct inputs whose callbacks interleave, each
\* gets the outcome its call has alone, and no step of one call writes what
\* belongs to the other call.
C17_ConcurrentCallsAreIndependent ==
    /\ [](SameOutcomeAsAlone /\ NoCallAbandoned)
    /\ [][OtherUntouched]_vars

\* C17 witness: the search for x had read /p/s and was waiting for the stats
\* of /p when resolve('/p', 'libX') of the other caller threw on the
\* manifest; the search is abandoned.
C17_Witness ==
    /\ status = "threw" /\ call.op = "findWithRequireSemantics"
    /\ call.item = "libX"
    /\ other.status = "abandoned" /\ other.call.op = "findItem"
    /\ DOMAIN other.readCount = {"/p/s", "/p"}

FindingParent == call.op = "findParentPath"

\* C21: findParentPath(a, b) equals findParentPath(b, a).
C21_ParentPathIsSymmetric ==
    (Returned /\ FindingParent) =>
        cb.result = Str(findParentPath(call.path2, call.path1))

\* C21 witness: the paths differ in length and in their last segment, and
\* the result is the one of the call with the arguments exchanged.
C21_Witness ==
    /\ Returned /\ FindingParent
    /\ call.path1 = "/a/b/cd" /\ call.path2 = "/a/bx/c"
    /\ cb.result = Str(findParentPath("/a/bx/c", "/a/b/cd"))

\* p, given without a trailing separator, is a directory above q
IsAncestorOf(p, q) ==
    p # "" /\ ~EndsWith[p, "/"] /\ StartsWith[q, p \o "/"]

\* C22: when one argument is a directory above the other one and has no
\* trailing separator, findParentPath returns it as it was given.
C22_AncestorIsReturnedAsGiven ==
    (Returned /\ FindingParent) =>
        /\ IsAncestorOf(call.path1, call.path2) => cb.result = Str(call.path1)
        /\ IsAncestorOf(call.path2, call.path1) => cb.result = Str(call.path2)

\* C22 witness: for '/a/b/c' and its parent '/a/b' the result is '/a/b/',
\* the parent with a separator appended.
C22_Witness ==
    /\ Returned /\ FindingParent
    /\ call.path1 = "/a/b/c" /\ call.path2 = "/a/b"
    /\ cb.result = Str("/a/b/")

\* the name the path ends with, separators after it ignored
LastName(s) ==
    LET segs == DirSegments(s) IN
    IF segs = << >> THEN "" ELSE segs[Len(segs)]

\* the name ends with '.js' and is more than that
HasJsExtension(s) == EndsWith[LastName(s), ".js"] /\ Len(LastName(s)) > 3

HasSlash(s) == \E i \in 1..Len(s) : SubSeq(s, i, i) = "/"

\* the beginnings and endings that make a require string a file path
LooksLikePath(s) ==
    \/ StartsWith[s, "/"] \/ StartsWith[s, "./"] \/ StartsWith[s, "../"]
    \/ EndsWith[s, "/"]
    \/ HasJsExtension(s)

\* C23: isNodeModuleRequire(s) is false when s starts with '/', './' or
\* '../', ends with '/' or has the '.js' extension, and true for every other
\* non-empty s.
C23_BareSpecifiers ==
    (Returned /\ call.op = "isNodeModuleRequire") =>
        /\ LooksLikePath(call.itemPath) => cb.result = Bool(FALSE)
        /\ (~LooksLikePath(call.itemPath) /\ call.itemPath # "")
                => cb.result = Bool(TRUE)

\* C23 witness: 'lodash/array/' is refused for its last character alone.
C23_Witness ==
    /\ Returned /\ call.op = "isNodeModuleRequire"
    /\ call.itemPath = "lodash/array/"
    /\ cb.result = Bool(FALSE)

\* the branch findWithRequireSemantics takes for item
Branch(item) == EnterFindWithRequireSemantics("/p", item)[1].branch

\* C24: isNodeModuleMainRequire(s) is true for every non-empty s with no
\* slash and no '.js' extension and false when s has a slash; what it
\* accepts isNodeModuleRequire accepts too, and the branch resolve takes is
\* the main one for these, the sub-path one for the other bare specifiers
\* and the file one for the rest.
C24_MainSpecifiersAndDispatch ==
    (Returned /\ call.op = "isNodeModuleMainRequire") =>
        LET s == call.itemPath IN
        /\ (s # "" /\ ~HasSlash(s) /\ ~HasJsExtension(s))
                => cb.result = Bool(TRUE)
        /\ HasSlash(s) => cb.result = Bool(FALSE)
        /\ cb.result = Bool(TRUE) => isNodeModuleRequire(s)
        /\ Branch(s) = "main" <=> cb.result = Bool(TRUE)
        /\ Branch(s) = "sub"
                <=> (cb.result = Bool(FALSE) /\ isNodeModuleRequire(s))
        /\ Branch(s) = "file" <=> ~isNodeModuleRequire(s)

\* C24 witness: '..' has no slash and no extension: it is taken for the
\* name of a module.
C24_Witness ==
    /\ Returned /\ call.op = "isNodeModuleMainRequire"
    /\ call.itemPath = ".." /\ cb.result = Bool(TRUE)
    /\ Branch("..") = "main"

\* what follows the last 'node_modules/' in p, up to the next separator
AfterLastNodeModules(p) ==
    LET marker == "node_modules/"
        at == {i \in 0..(Len(p) - Len(marker)) :
                SubSeq(p, i + 1, i + Len(marker)) = marker}
    IN IF at = {} THEN ""
       ELSE Split[SubSeq(p, MaxOf[at] + Len(marker) + 1, Len(p))][1]

\* C25: getModuleNameFromPath(p) is the segment that follows the last
\* 'node_modules/' in p, and the empty string when p has none.
C25_InnermostModuleName ==
    (Returned /\ call.op = "getModuleNameFromPath") =>
        cb.result = Str(AfterLastNodeModules(call.itemPath))

\* C25 witness: with nested dependency directories and a sub-directory the
\* innermost module is named.
C25_Witness ==
    /\ Returned /\ call.op = "getModuleNameFromPath"
    /\ call.itemPath
        = "/project/node_modules/lodash/node_modules/jquery/subdir"
    /\ cb.result = Str("jquery")

\* C26: a successful findWithRequireSemantics names a path that a stat of
\* this very call reported as a regular file, whichever branch it took;
\* never a directory or a path that does not exist.
C26_FoundPathWasStattedAsFile ==
    (Returned /\ Resolving /\ cb.err = Null) =>
        /\ cb.result.type = "object" /\ cb.result.statInfo = "file"
        /\ [path |-> cb.result.foundPath, kind |-> "file"] \in statLog
        /\ IsFile(cb.result.foundPath)

\* C26 witness: the sub-path 'libX/dist/entry' was resolved to entry.js,
\* after the stats of dist/entry (absent) and of the module directory.
C26_Witness ==
    /\ Returned /\ Resolving /\ call.item = "libX/dist/entry"
    /\ cb.err = Null
    /\ cb.result.foundPath = ModuleDir \o "/dist/entry.js"
    /\ [path |-> ModuleDir \o "/dist/entry", kind |-> "ENOENT"] \in statLog
    /\ [path |-> ModuleDir, kind |-> "dir"] \in statLog

\* the paths the file branch may return for item: the joined path, its
\* index.js, the joined path with '.js' appended, and the joined path with
\* item's extension replaced by '.js'
AllowedPaths(currentPath, item) ==
    LET joinedPath == PathJoin[currentPath, item]
        ext == PathExtname[item]
    IN {joinedPath, PathJoin[joinedPath, "index.js"], joinedPath \o ".js"}
        \cup (IF ext = "" THEN {}
              ELSE {SubSeq(joinedPath, 1, Len(joinedPath) - Len(ext))
                        \o ".js"})

\* C27: for a relative or absolute specifier resolve returns one of
\* baseDir/specifier, baseDir/specifier/index.js, baseDir/specifier.js and
\* baseDir/specifier with its extension replaced by '.js', and no other
\* path.
C27_OnlyCandidatesOfTheSpecifier ==
    (Returned /\ Resolving /\ IsFileSpecifier(call.item) /\ cb.err = Null)
        => cb.result.foundPath \in AllowedPaths(call.currentPath, call.item)

\* C27 failing state: resolve('/p', './a') returned /p/.js, the only regular
\* file among the candidates.
C27_Witness ==
    /\ Returned /\ Resolving /\ call.item = "./a" /\ call.currentPath = "/p"
    /\ ~IsFile("/p/a") /\ ~IsFile("/p/a/index.js") /\ ~IsFile("/p/a.js")
    /\ cb.err = Null /\ cb.result.foundPath = "/p/.js"

\* C28: a specifier with the '.js' extension has one candidate, the path as
\* written: resolve(baseDir, './a.js') succeeds exactly when baseDir/a.js is
\* a regular file, returns that path, and stats nothing else.
C28_JsSpecifierIsTakenVerbatim ==
    (Resolving /\ PathExtname[call.item] = ".js") =>
        LET verbatim == PathJoin[call.currentPath, call.item] IN
        /\ \A t \in statLog : t.path = verbatim
        /\ Returned =>
            /\ cb.count = 1
            /\ cb.err = Null <=> IsFile(verbatim)
            /\ cb.err = Null => cb.result = Found(verbatim, "file")
            /\ cb.err # Null => cb.result = Undefined

\* C28 witness: /p/a.js is a directory and /p/a a regular file;
\* resolve('/p', './a.js') failed after the one stat of /p/a.js.
C28_Witness ==
    /\ Returned /\ Resolving /\ call.item = "./a.js"
    /\ call.currentPath = "/p"
    /\ Stat(fs, "/p/a.js") = "dir" /\ IsFile("/p/a")
    /\ cb.err.code = "NoVariation"
    /\ statLog = {[path |-> "/p/a.js", kind |-> "dir"]}

\* 'm/rest': the name of the module and the path inside it
ModuleOf(item) == Split[item][1]

RestOf(item) == JoinSegs[Tail(Split[item])]

\* what probing './rest' from the module directory nm yields
ProbedInModule(nm, item) == EntryFile(nm, "./" \o RestOf(item))

\* C29: resolve(baseDir, 'm/rest') has the outcome of probing './rest' from
\* the directory findNodeModulePath(baseDir, 'm') finds: with the module
\* found (the nearest one, nothing on the way failing) it returns the file
\* that probing selects or fails with the resolution error; a success is
\* always such a file of a module directory it stat'ed; with no module the
\* call fails; and rest is never searched as a module.
C29_SubPathIsProbedInsideModule ==
    (Returned /\ Resolving /\ Branch(call.item) = "sub") =>
        LET m == ModuleOf(call.item)
            near == NearestModuleDir(call.currentPath, m)
            nm == ModulePathOf(near, m)
        IN
        /\ cb.count = 1
        /\ (near # "" /\ \A d \in WalkUp[call.currentPath] :
                            near \in WalkUp[d] => ~IoFault(d))
            => IF ProbedInModule(nm, call.item) = ""
               THEN cb.err.code = "NoVariation" /\ cb.result = Undefined
               ELSE cb.err = Null
                    /\ cb.result = Found(ProbedInModule(nm, call.item), "file")
        /\ cb.err = Null
            => \E d \in WalkUp[call.currentPath] :
                /\ HasModule(d, m)
                /\ \E t \in statLog : t.path = ModulePathOf(d, m)
                /\ cb.result
                    = Found(ProbedInModule(ModulePathOf(d, m), call.item),
                            "file")
        /\ near = "" => (cb.err # Null /\ cb.err.code # "NoVariation"
                            /\ cb.result = Undefined)
        /\ \A t \in statLog, d \in WalkUp[call.currentPath] :
                t.path # ModulePathOf(d, ModuleOf(RestOf(call.item)))

\* C29 witness: from /p/s the module of /p was found and 'dist/entry' was
\* probed inside it, giving dist/entry.js.
C29_Witness ==
    /\ Returned /\ Resolving /\ call.item = "libX/dist/entry"
    /\ call.currentPath = "/p/s"
    /\ cb.err = Null
    /\ cb.result = Found(ModuleDir \o "/dist/entry.js", "file")
    /\ [path |-> ModuleDir \o "/dist/entry/index.js", kind |-> "ENOENT"]
            \in statLog

FindingMainEntry == call.op = "findNodeModuleMainEntry"

\* C30: findNodeModuleMainEntry(moduleDir) probes the entry point as a path
\* inside moduleDir: it starts no search of a dependency directory (no
\* findNodeModulePath, no findItem, no readdir), and a file it returns is
\* inside moduleDir.
C30_EntryPointStaysInsideModule ==
    FindingMainEntry =>
        /\ \A i \in 1..Len(stack) :
                stack[i].fn \notin {"findNodeModulePath", "findItem"}
        /\ readCount = Empty
        /\ (Returned /\ cb.err = Null)
            => StartsWith[cb.result.foundPath, call.modulePath \o "/"]

\* C30 failing state: the manifest's main is 'index' and index.js is a
\* regular file of the module directory; findNodeModuleMainEntry searched
\* node_modules directories for a module named index, up to the root, and
\* failed.
C30_Witness ==
    /\ Returned /\ FindingMainEntry /\ call.modulePath = ModuleDir
    /\ entryPoint.type = "string" /\ entryPoint.val = "index"
    /\ IsFile(ModuleDir \o "/index.js")
    /\ "/" \in DOMAIN readCount /\ ModuleDir \in DOMAIN readCount
    /\ cb.err # Null /\ cb.result = Undefined

\* the asynchronous functions that take the caller's callback
CallsBack ==
    call.op \in {"findItem", "findNodeModulePath", "findWithRequireSemantics"}

\* an error and no result, or no error and a result
ErrorOrResult(c) ==
    \/ c.err # Null /\ c.result = Undefined
    \/ c.err = Null /\ c.result # Undefined

\* the callback is never called twice, and what it gets is an error or a
\* result, never both and never neither
CalledBackOnceAtMost ==
    CallsBack =>
        /\ cb.count <= 1
        /\ Returned => (cb.count = 1 /\ ErrorOrResult(cb))
        /\ cb.count = 1 => Returned

\* C31: an invocation of findItem, findNodeModulePath or
\* findWithRequireSemantics calls the callback exactly once, with an error
\* and no result or with no error and a result: never twice, and an
\* invocation that is over has called it.
C31_CallbackCalledExactlyOnce ==
    /\ CalledBackOnceAtMost
    /\ (CallsBack /\ Ended) => cb.count = 1

\* C31 failing state: resolve('/p/s', 'libX') found the module directory in
\* /p, whose manifest does not parse; the call is over and the callback was
\* not called.
C31_Witness ==
    /\ status = "threw" /\ Resolving /\ call.item = "libX"
    /\ call.currentPath = "/p/s"
    /\ (ModuleDir \o "/package.json") \in DOMAIN manifests
    /\ ~manifests[ModuleDir \o "/package.json"].parses
    /\ [path |-> ModuleDir, kind |-> "dir"] \in statLog
    /\ cb.count = 0 /\ stack = << >>

\* a findItem call that is over has the outcome its arguments and the disk
\* determine, and has read the directories from the starting one up to the
\* one where the search ended
OutcomeWhateverTheOrder ==
    (Returned /\ Searching) =>
        /\ cb = AloneOutcome
        /\ DOMAIN readCount
            = {d \in WalkUp[call.currentPath] :
                    LastSearched(call.currentPath) \in WalkUp[d]}

\* a step that ends the search of the current directory (a callback, or the
\* search of the parent) is taken with no stat of that directory pending
DecidedAfterAllStats ==
    (Searching /\ Len(stack) > 0 /\ Top.phase = "stat"
        /\ (stack' = << >>
            \/ stack'[Len(stack')].currentPath # Top.currentPath))
    => AllDone(Top.ops)

\* C32: the outcome of findItem (found path, not-found or I/O error) and
\* the directories it read are the same in every completion order of the
\* stats of a directory, and the search goes to the parent only when all
\* stats of the current directory have completed.
C32_StatOrderIsIrrelevant ==
    []OutcomeWhateverTheOrder /\ [][DecidedAfterAllStats]_vars

\* C32 witness: in /p the stat of x, the target, has completed before the
\* stat of another entry, which is pending: nothing is decided yet.
C32_Witness ==
    /\ status = "running" /\ Searching /\ Len(stack) = 1
    /\ Top.phase = "stat" /\ Top.currentPath = "/p"
    /\ cb.count = 0
    /\ \E i, j \in 1..Len(Top.ops) :
        /\ Top.ops[i].status = "pending"
        /\ Top.ops[j].status = "ok"
        /\ Top.ops[j].result = Str("/p/x")

=============================================================================
